---- MODULE Spec2Model ----
\* Intrusive n-ary tree node of src/src/node.rs: five Cell<Weak<Node>> link
\* slots per node, the children kept alive by a manually adjusted strong count.
EXTENDS Integers, Sequences, FiniteSets

\* ---------------------------------------------------------------- bounds
\* nodes the caller makes in Spec, and in SpecTree
NumNodes == 3
TreeNodes == 4
\* handles the caller holds to one node
MaxHandles == 1

NumCells == IF NumNodes > TreeNodes THEN NumNodes ELSE TreeNodes
Nodes == 1..NumCells
\* Weak::new(): the empty reference
Nil == 0
Slot == Nodes \cup {Nil}
Fuel == NumCells + 1

AttachTarget == {"FirstChild", "LastChild", "After", "Before"}

VARIABLES
  nodes,    \* nodes[n]: the fields of allocation n, its Rc strong count,
            \* whether Rc::new has made it, and how often Drop::drop ran on it
  handles   \* handles[n]: number of Rc<Node> handles the caller holds to n

vars == <<nodes, handles>>

\* ---------------------------------------------------------------- node
\* A Node whose link slots are all Default::default(); strong = 0 until Rc::new
EmptyNode == [parent |-> Nil, first_child |-> Nil, last_child |-> Nil,
              prev_sibling |-> Nil, next_sibling |-> Nil,
              strong |-> 0, allocated |-> FALSE, dropped |-> 0]

\* Node::new: Rc::new(Node { .. }) gives strong count 1
new(h, n) == [h EXCEPT ![n] = [EmptyNode EXCEPT !.strong = 1, !.allocated = TRUE]]

\* Weak::upgrade: Some(rc) iff the slot is populated and the pointee is alive
upgrade(h, w) == IF w # Nil /\ h[w].strong > 0 THEN w ELSE Nil

parent(h, n) == h[n].parent

first_child(h, n) == h[n].first_child

last_child(h, n) == h[n].prev_sibling

prev_sibling(h, n) == h[n].prev_sibling

next_sibling(h, n) == h[n].next_sibling

\* parent.ptr_eq(&Weak::new()), the slot restored afterwards
is_root(h, n) == h[n].parent = Nil

\* ---------------------------------------------------------------- iterators
RECURSIVE IterNext(_, _, _)
\* Iter::next repeated until None; k bounds the walk
IterNext(h, node, k) ==
  IF node = Nil \/ k = 0 THEN <<>>
  ELSE <<node>> \o IterNext(h, upgrade(h, next_sibling(h, node)), k - 1)

children(h, n) == IterNext(h, upgrade(h, first_child(h, n)), Fuel)

RECURSIVE ParentsNext(_, _, _)
\* Parents::next repeated until None; k bounds the walk
ParentsNext(h, node, k) ==
  IF node = Nil \/ k = 0 THEN <<>>
  ELSE <<node>> \o ParentsNext(h, upgrade(h, parent(h, node)), k - 1)

parents(h, n) == ParentsNext(h, upgrade(h, parent(h, n)), Fuel)

\* ---------------------------------------------------------------- teardown
RECURSIVE drop(_, _)
RECURSIVE drop_rc(_, _)
RECURSIVE drop_loop(_, _)

\* Drop for Rc<Node>: release one strong unit, destroy the node at zero
drop_rc(h, n) ==
  LET h1 == [h EXCEPT ![n].strong = @ - 1]
  IN IF h1[n].strong = 0 THEN drop(h1, n) ELSE h1

\* faulty variant: only the first child is released
drop_loop_once(h, node) ==
  IF node = Nil \/ h[node].strong = 0 THEN h
  ELSE LET h1 == [h EXCEPT ![node].parent = Nil]
           h2 == [h1 EXCEPT ![node].prev_sibling = Nil]
           h3 == [h2 EXCEPT ![node].next_sibling = Nil]
       IN drop_rc(h3, node)

\* faulty variant: the child's prev_sibling is left pointing at its old sibling
drop_loop_keepprev(h, node) ==
  IF node = Nil \/ h[node].strong = 0 THEN h
  ELSE LET h1 == [h EXCEPT ![node].parent = Nil]
           nx == h1[node].next_sibling
           h3 == [h1 EXCEPT ![node].next_sibling = Nil]
       IN drop_loop(drop_rc(h3, node), nx)

\* faulty variant: the child's parent is left pointing at the dying node
drop_loop_keepparent(h, node) ==
  IF node = Nil \/ h[node].strong = 0 THEN h
  ELSE LET h2 == [h EXCEPT ![node].prev_sibling = Nil]
           nx == h2[node].next_sibling
           h3 == [h2 EXCEPT ![node].next_sibling = Nil]
       IN drop_loop(drop_rc(h3, node), nx)

\* the while loop of Drop::drop
drop_loop(h, node) ==
  IF node = Nil \/ h[node].strong = 0 THEN h
  ELSE LET h1 == [h EXCEPT ![node].parent = Nil]
           h2 == [h1 EXCEPT ![node].prev_sibling = Nil]
           nx == h2[node].next_sibling
           h3 == [h2 EXCEPT ![node].next_sibling = Nil]
       IN drop_loop(drop_rc(h3, node), nx)

\* Drop::drop, then the drop glue releases the five Weak fields
drop(h, x) ==
  LET h1 == drop_loop(h, h[x].first_child)
  IN [h1 EXCEPT ![x] = [EmptyNode EXCEPT !.allocated = TRUE,
                                         !.dropped = h1[x].dropped + 1]]

\* a successful upgrade() hands out one more Rc: strong count + 1
clone_rc(h, n) == [h EXCEPT ![n].strong = @ + 1]

\* faulty variant: the count bump of attach left out
increment_skipped(h, n) == h

\* Rc::increment_strong_count
increment_strong_count(h, n) == [h EXCEPT ![n].strong = @ + 1]

\* Rc::decrement_strong_count: drops one Rc made from the raw pointer
decrement_strong_count(h, n) == drop_rc(h, n)

\* ---------------------------------------------------------------- attach
\* The Rc temporaries a call makes and drops again (self.clone(), the upgraded
\* parent, prev and next) leave every strong count as it was: each is taken
\* from a live node and released before the call returns.
\* faulty variant: the successor's prev_sibling is not pointed at the new node
_attach_oneway(h, p, prev, next, node) ==
  LET h1 == IF prev # Nil THEN [h EXCEPT ![prev].next_sibling = node]
                          ELSE [h EXCEPT ![p].first_child = node]
      h2 == IF next # Nil THEN h1
                          ELSE [h1 EXCEPT ![p].last_child = node]
      h3 == [h2 EXCEPT ![node].parent = p]
      h4 == [h3 EXCEPT ![node].prev_sibling = prev]
  IN [h4 EXCEPT ![node].next_sibling = next]

_attach(h, p, prev, next, node) ==
  LET h1 == IF prev # Nil THEN [h EXCEPT ![prev].next_sibling = node]
                          ELSE [h EXCEPT ![p].first_child = node]
      h2 == IF next # Nil THEN [h1 EXCEPT ![next].prev_sibling = node]
                          ELSE [h1 EXCEPT ![p].last_child = node]
      h3 == [h2 EXCEPT ![node].parent = p]
      h4 == [h3 EXCEPT ![node].prev_sibling = prev]
  IN [h4 EXCEPT ![node].next_sibling = next]

\* faulty variant: After inserts in front of self, like Before
attach_match_before(h, self, attach_target, node) ==
  LET p == upgrade(h, h[self].parent)
  IN CASE attach_target \in {"Before", "After"} ->
            IF p = Nil THEN [ok |-> FALSE, h |-> h]
            ELSE [ok |-> TRUE,
                  h |-> increment_strong_count(
                          _attach(h, p, upgrade(h, h[self].prev_sibling), self, node),
                          node)]
       [] attach_target = "FirstChild" ->
            [ok |-> TRUE,
             h |-> increment_strong_count(
                     _attach(h, self, Nil, upgrade(h, h[self].first_child), node),
                     node)]
       [] attach_target = "LastChild" ->
            [ok |-> TRUE,
             h |-> increment_strong_count(
                     _attach(h, self, upgrade(h, h[self].last_child), Nil, node),
                     node)]

\* the match of attach and the count bump after it; the two expect() calls
\* panic (ok = FALSE) before _attach runs
attach_match(h, self, attach_target, node) ==
  LET p == upgrade(h, h[self].parent)
  IN CASE attach_target = "Before" ->
            IF p = Nil THEN [ok |-> FALSE, h |-> h]
            ELSE [ok |-> TRUE,
                  h |-> increment_strong_count(
                          _attach(h, p, upgrade(h, h[self].prev_sibling), self, node),
                          node)]
       [] attach_target = "After" ->
            IF p = Nil THEN [ok |-> FALSE, h |-> h]
            ELSE [ok |-> TRUE,
                  h |-> increment_strong_count(
                          _attach(h, p, self, upgrade(h, h[self].next_sibling), node),
                          node)]
       [] attach_target = "FirstChild" ->
            [ok |-> TRUE,
             h |-> increment_strong_count(
                     _attach(h, self, Nil, upgrade(h, h[self].first_child), node),
                     node)]
       [] attach_target = "LastChild" ->
            [ok |-> TRUE,
             h |-> increment_strong_count(
                     _attach(h, self, upgrade(h, h[self].last_child), Nil, node),
                     node)]

\* faulty variant: the assert on node.is_root() left out
attach_unchecked(h, self, attach_target, node) ==
  attach_match(h, self, attach_target, node)

\* result: ok = FALSE when the call panics; assert!(node.is_root()) first
attach(h, self, attach_target, node) ==
  IF ~is_root(h, node) THEN [ok |-> FALSE, h |-> h]
  ELSE attach_match(h, self, attach_target, node)

\* faulty variant: the child is put in front
add_child_last_front(h, self, node) == attach(h, self, "FirstChild", node)

add_child_last(h, self, node) == attach(h, self, "LastChild", node)

\* ---------------------------------------------------------------- detach
\* faulty variant: a first child's successor is not made the first child
detach_patch_first(h, p, prev, next) ==
  LET h3 == IF upgrade(h, prev) # Nil
            THEN [h EXCEPT ![prev].next_sibling = next]
            ELSE [h EXCEPT ![p].first_child = prev]
  IN IF upgrade(h3, next) # Nil
     THEN [h3 EXCEPT ![next].prev_sibling = prev]
     ELSE [h3 EXCEPT ![p].last_child = prev]

\* faulty variant: the parent's last_child slot is not patched
detach_patch_stale(h, p, prev, next) ==
  LET h3 == IF upgrade(h, prev) # Nil
            THEN [h EXCEPT ![prev].next_sibling = next]
            ELSE [h EXCEPT ![p].first_child = next]
  IN IF upgrade(h3, next) # Nil
     THEN [h3 EXCEPT ![next].prev_sibling = prev]
     ELSE h3

\* the two if-let blocks of detach that patch the neighbours
detach_patch(h, p, prev, next) ==
  LET h3 == IF upgrade(h, prev) # Nil
            THEN [h EXCEPT ![prev].next_sibling = next]
            ELSE [h EXCEPT ![p].first_child = next]
  IN IF upgrade(h3, next) # Nil
     THEN [h3 EXCEPT ![next].prev_sibling = prev]
     ELSE [h3 EXCEPT ![p].last_child = prev]

\* faulty variant: the count is released before the parent is looked at
detach_eager(h, self) ==
  LET parent0 == h[self].parent
      prev == h[self].prev_sibling
      next == h[self].next_sibling
      h1 == [h EXCEPT ![self].parent = Nil,
                      ![self].prev_sibling = Nil,
                      ![self].next_sibling = Nil]
      h2 == decrement_strong_count(h1, self)
      p == upgrade(h2, parent0)
  IN IF p = Nil THEN h2
     ELSE detach_patch(h2, p, prev, next)

detach(h, self) ==
  LET parent0 == h[self].parent
      prev == h[self].prev_sibling
      next == h[self].next_sibling
      h1 == [h EXCEPT ![self].parent = Nil,
                      ![self].prev_sibling = Nil,
                      ![self].next_sibling = Nil]
      p == upgrade(h1, parent0)
  IN IF p = Nil THEN h1
     ELSE detach_patch(decrement_strong_count(h1, self), p, prev, next)

\* result: ret = the returned node (Nil for None); the returned Rc is one
\* strong unit the caller now owns
remove_last_child(h, self) ==
  LET x == upgrade(h, last_child(h, self))
  IN IF x = Nil THEN [ret |-> Nil, h |-> h]
     ELSE [ret |-> x, h |-> detach(clone_rc(h, x), x)]

\* ---------------------------------------------------------------- state
Alive(n) == nodes[n].strong > 0
Unborn(n) == ~nodes[n].allocated
Held(n) == handles[n] > 0
Occurrences(seq, x) == Cardinality({i \in 1..Len(seq) : seq[i] = x})

Init ==
  /\ nodes = [n \in Nodes |-> EmptyNode]
  /\ handles = [n \in Nodes |-> 0]

\* let n = Node::new(v): the allocator hands out the lowest unused cell, the
\* caller makes at most cap nodes
NewUpTo(cap) ==
  \E n \in 1..cap :
    /\ Unborn(n)
    /\ \A m \in Nodes : m < n => ~Unborn(m)
    /\ nodes' = new(nodes, n)
    /\ handles' = [handles EXCEPT ![n] = 1]

New == NewUpTo(NumNodes)

\* self.add_child_last(&node)
AddChildLast ==
  \E self \in Nodes, node \in Nodes :
    /\ Held(self) /\ Held(node)
    /\ nodes' = add_child_last(nodes, self, node).h
    /\ UNCHANGED handles

\* self.attach(target, &node)
Attach ==
  \E self \in Nodes, node \in Nodes, t \in AttachTarget :
    /\ Held(self) /\ Held(node)
    /\ nodes' = attach(nodes, self, t, node).h
    /\ UNCHANGED handles

\* self.detach()
Detach ==
  \E self \in Nodes :
    /\ Held(self)
    /\ nodes' = detach(nodes, self)
    /\ UNCHANGED handles

\* let x = self.remove_last_child(): the caller keeps the returned handle,
\* or (keep = FALSE) lets the returned Option go out of scope at once
RemoveLastChild ==
  \E self \in Nodes, keep \in BOOLEAN :
    /\ Held(self)
    /\ LET r == remove_last_child(nodes, self)
       IN IF r.ret = Nil
          THEN nodes' = r.h /\ UNCHANGED handles
          ELSE IF keep
               THEN /\ handles[r.ret] < MaxHandles
                    /\ nodes' = r.h
                    /\ handles' = [handles EXCEPT ![r.ret] = @ + 1]
               ELSE /\ nodes' = drop_rc(r.h, r.ret)
                    /\ UNCHANGED handles

\* the caller keeps one element yielded by self.children()
TakeChild ==
  \E self \in Nodes :
    /\ Held(self)
    /\ \E i \in 1..Len(children(nodes, self)) :
         LET c == children(nodes, self)[i]
         IN /\ handles[c] < MaxHandles
            /\ nodes' = clone_rc(nodes, c)
            /\ handles' = [handles EXCEPT ![c] = @ + 1]

\* the caller keeps one element yielded by self.parents()
TakeParent ==
  \E self \in Nodes :
    /\ Held(self)
    /\ \E i \in 1..Len(parents(nodes, self)) :
         LET c == parents(nodes, self)[i]
         IN /\ handles[c] < MaxHandles
            /\ nodes' = clone_rc(nodes, c)
            /\ handles' = [handles EXCEPT ![c] = @ + 1]

\* a caller-held Rc<Node> goes out of scope
Release ==
  \E n \in Nodes :
    /\ Held(n)
    /\ nodes' = drop_rc(nodes, n)
    /\ handles' = [handles EXCEPT ![n] = @ - 1]

Next ==
  \/ New
  \/ AddChildLast
  \/ Attach
  \/ Detach
  \/ RemoveLastChild
  \/ TakeChild
  \/ TakeParent
  \/ Release

Spec == Init /\ [][Next]_vars

\* the same behaviours as Spec: the properties of one call (C1, C4, C5, C12,
\* C14, C15, C17) are verified against it apart from the heap invariants
SpecCalls == Init /\ [][Next]_vars

\* building a tree: self.add_child_last(&node) with node a root that is
\* neither self nor an ancestor of self, so that no cycle is closed
AddChildLastTree ==
  \E self \in Nodes, node \in Nodes :
    /\ Held(self) /\ Held(node)
    /\ self # node
    /\ is_root(nodes, node)
    /\ Occurrences(parents(nodes, self), node) = 0
    /\ nodes' = add_child_last(nodes, self, node).h
    /\ UNCHANGED handles

NewTree == NewUpTo(TreeNodes)

TreeNext ==
  \/ NewTree
  \/ AddChildLastTree
  \/ TakeChild
  \/ TakeParent
  \/ Release

SpecTree == Init /\ [][TreeNext]_vars

TypeOK ==
  /\ \A n \in Nodes :
       /\ nodes[n].parent \in Slot /\ nodes[n].first_child \in Slot
       /\ nodes[n].last_child \in Slot /\ nodes[n].prev_sibling \in Slot
       /\ nodes[n].next_sibling \in Slot
       /\ nodes[n].strong \in 0..(MaxHandles + 1)
       /\ nodes[n].allocated \in BOOLEAN
       /\ nodes[n].dropped \in 0..1
  /\ handles \in [Nodes -> 0..MaxHandles]

\* ---------------------------------------------------------------- claims
Live == {n \in Nodes : Alive(n)}
Without(seq, x) == SelectSeq(seq, LAMBDA y : y # x)
AllReleased == \A n \in Nodes : handles[n] = 0

\* C1: for every held node P and every held root N, right after
\* P.add_child_last(N) the node N occurs exactly once in P.children(), as its
\* last element, and N.parent() upgrades to P.
C1_AddChildLastLinks ==
  \A P \in Nodes, N \in Nodes :
    (Held(P) /\ Held(N) /\ is_root(nodes, N)) =>
      LET r == add_child_last(nodes, P, N)
          c == children(r.h, P)
      IN /\ r.ok
         /\ Occurrences(c, N) = 1
         /\ c[Len(c)] = N
         /\ upgrade(r.h, parent(r.h, N)) = P

\* a parent that already has a child receives a further root as its last child
C1_Witness ==
  \E P \in Nodes, N \in Nodes :
    /\ P # N /\ Held(P) /\ Held(N) /\ is_root(nodes, N) /\ is_root(nodes, P)
    /\ Len(children(nodes, P)) >= 1
    /\ Len(children(add_child_last(nodes, P, N).h, P)) = Len(children(nodes, P)) + 1

\* C2: in every reachable state and for every live node P, P.last_child()
\* upgrades to the last element of P.children(), and is the empty reference
\* iff P has no children.
C2_LastChildAccessor ==
  \A P \in Live :
    LET c == children(nodes, P)
    IN /\ (last_child(nodes, P) = Nil) <=> (c = <<>>)
       /\ c # <<>> => upgrade(nodes, last_child(nodes, P)) = c[Len(c)]

\* C3: for every held node P with children [C1..Ck]: if k >= 1 then
\* P.remove_last_child() returns Ck, leaves P.children() = [C1..Ck-1] and Ck a
\* root, and changes no node outside P's child list; if k = 0 it returns
\* absence and changes nothing.
C3_RemoveLastChild ==
  \A P \in Nodes :
    Held(P) =>
      LET c == children(nodes, P)
          r == remove_last_child(nodes, P)
      IN IF c = <<>>
         THEN r.ret = Nil /\ r.h = nodes
         ELSE /\ r.ret = c[Len(c)]
              /\ children(r.h, P) = SubSeq(c, 1, Len(c) - 1)
              /\ is_root(r.h, c[Len(c)])
              /\ \A m \in Nodes :
                   (m # P /\ Occurrences(c, m) = 0) =>
                     /\ r.h[m].parent = nodes[m].parent
                     /\ r.h[m].first_child = nodes[m].first_child
                     /\ r.h[m].last_child = nodes[m].last_child
                     /\ r.h[m].prev_sibling = nodes[m].prev_sibling
                     /\ r.h[m].next_sibling = nodes[m].next_sibling

\* C4: self.attach(target, node) fails when node is not a root, and fails
\* when target is Before or After and self is a root; a failing call changes
\* no link slot and no strong count of any node.
C4_AttachRejects ==
  \A self \in Nodes, node \in Nodes, t \in AttachTarget :
    (Held(self) /\ Held(node)) =>
      LET r == attach(nodes, self, t, node)
      IN /\ ~is_root(nodes, node) => ~r.ok
         /\ (t \in {"Before", "After"} /\ is_root(nodes, self)) => ~r.ok
         /\ ~r.ok => r.h = nodes

\* one state offers both rejections: an attached node to attach again, and a
\* root to attach a sibling to
C4_Witness ==
  \E self \in Nodes, node \in Nodes, other \in Nodes :
    /\ Held(self) /\ Held(node) /\ Held(other)
    /\ ~is_root(nodes, node) /\ ~attach(nodes, self, "LastChild", node).ok
    /\ is_root(nodes, self) /\ is_root(nodes, other)
    /\ ~attach(nodes, self, "Before", other).ok
    /\ ~attach(nodes, self, "After", other).ok

\* C5: for every held attached node N with parent P, after N.detach(): N is a
\* root, N does not occur in P.children(), and P.children() is its previous
\* sequence with N removed, the other children in their previous order.
C5_DetachRestoresRoot ==
  \A N \in Nodes :
    (Held(N) /\ upgrade(nodes, parent(nodes, N)) # Nil) =>
      LET P == upgrade(nodes, parent(nodes, N))
          h2 == detach(nodes, N)
      IN /\ is_root(h2, N)
         /\ Occurrences(children(h2, P), N) = 0
         /\ children(h2, P) = Without(children(nodes, P), N)

\* the first of two children of a root is detached: its successor becomes
\* the only child
C5_Witness ==
  \E N \in Nodes :
    /\ Held(N)
    /\ upgrade(nodes, parent(nodes, N)) # Nil
    /\ is_root(nodes, parent(nodes, N))
    /\ prev_sibling(nodes, N) = Nil /\ next_sibling(nodes, N) # Nil
    /\ LET h2 == detach(nodes, N)
       IN /\ children(h2, parent(nodes, N)) = <<next_sibling(nodes, N)>>
          /\ is_root(h2, N)

\* C6: for every live node P with children [C1..Ck]: Ci.next_sibling()
\* upgrades to Ci+1 and Ci+1.prev_sibling() upgrades to Ci for each adjacent
\* pair, and C1.prev_sibling() and Ck.next_sibling() are empty.
C6_SiblingChain ==
  \A P \in Live :
    LET c == children(nodes, P)
    IN /\ \A i \in 1..(Len(c) - 1) :
            /\ upgrade(nodes, next_sibling(nodes, c[i])) = c[i + 1]
            /\ upgrade(nodes, prev_sibling(nodes, c[i + 1])) = c[i]
       /\ c # <<>> => /\ prev_sibling(nodes, c[1]) = Nil
                      /\ next_sibling(nodes, c[Len(c)]) = Nil

\* some parent has at least two children in its chain
C6_Witness ==
  \E P \in Live : Len(children(nodes, P)) >= 2

\* C7: for every attached node X with parent P: an empty prev_sibling slot
\* means P.first_child is X, an empty next_sibling slot means P.last_child is
\* X; and P's first_child and last_child slots are both empty exactly when no
\* node is attached under P.
C7_EndsOfChain ==
  /\ \A X \in Live :
       ~is_root(nodes, X) =>
         LET P == nodes[X].parent
         IN /\ nodes[X].prev_sibling = Nil => nodes[P].first_child = X
            /\ nodes[X].next_sibling = Nil => nodes[P].last_child = X
  /\ \A P \in Live :
       (nodes[P].first_child = Nil /\ nodes[P].last_child = Nil)
         <=> ~(\E X \in Live : nodes[X].parent = P)

\* a parent whose first and last child differ, next to a live childless node
C7_Witness ==
  /\ \E P \in Live : /\ nodes[P].first_child # Nil
                     /\ nodes[P].first_child # nodes[P].last_child
  /\ \E Q \in Live : nodes[Q].first_child = Nil /\ nodes[Q].last_child = Nil

\* C8: for every live node n the strong count is the number of caller-held
\* handles to n, plus one exactly when n's parent slot is non-empty.
C8_StrongCount ==
  \A n \in Live :
    nodes[n].strong = handles[n] + (IF is_root(nodes, n) THEN 0 ELSE 1)

\* an attached node the caller no longer holds, kept alive by the tree alone
C8_Witness ==
  \E n \in Live : handles[n] = 0 /\ ~is_root(nodes, n) /\ nodes[n].strong = 1

\* C9: for a tree built from fresh nodes by add_child_last, once every
\* caller-held handle has been released every node that was made has been
\* deallocated, and no node is ever deallocated twice.
C9_TreeFreedOnce ==
  /\ \A n \in Nodes : nodes[n].dropped <= 1
  /\ AllReleased =>
       \A n \in Nodes : nodes[n].allocated => (~Alive(n) /\ nodes[n].dropped = 1)

\* the caller's last handle is the one to the root of a tree of all nodes,
\* the others alive through the tree alone; releasing it frees every node
C9_Witness ==
  \E R \in Nodes :
    /\ handles[R] = 1 /\ is_root(nodes, R)
    /\ \A n \in (1..TreeNodes) \ {R} : handles[n] = 0 /\ Alive(n)
    /\ \E n \in Nodes : upgrade(nodes, parent(nodes, n)) \notin {Nil, R}
    /\ \A n \in 1..TreeNodes : drop_rc(nodes, R)[n].dropped = 1

\* C10: once every caller-held handle has been released, no node remains
\* alive, whatever attach and detach calls succeeded before (node = self and
\* node = an ancestor of self included).
C10_NoLeak ==
  AllReleased => \A n \in Nodes : ~Alive(n)

\* C11: for every live node n, n.parents() is finite and yields only strict
\* ancestors: the walk along the parent links ends at a node with an empty
\* parent slot and never yields n itself.
C11_ParentsAcyclic ==
  \A n \in Live :
    /\ Len(parents(nodes, n)) < Fuel
    /\ Occurrences(parents(nodes, n), n) = 0

\* C12: detach() on a held root changes no link slot and no strong count of
\* any node, so a second detach() leaves exactly the state left by the first.
C12_DetachRootNoOp ==
  \A N \in Nodes :
    Held(N) =>
      /\ is_root(nodes, N) => detach(nodes, N) = nodes
      /\ is_root(detach(nodes, N), N)
      /\ detach(detach(nodes, N), N) = detach(nodes, N)

\* a held attached node next to a held root: the first detach unlinks the one,
\* detach on the other and the repeated detach change nothing
C12_Witness ==
  \E N \in Nodes, R \in Nodes :
    /\ Held(N) /\ Held(R)
    /\ is_root(nodes, R) /\ nodes[R].first_child # Nil
    /\ upgrade(nodes, parent(nodes, N)) # Nil
    /\ detach(nodes, N) # nodes
    /\ detach(detach(nodes, N), N) = detach(nodes, N)
    /\ detach(nodes, R) = nodes

\* C13: every live node occurs in the children sequence of at most one node
\* and at most once in it, and it occurs in P.children() iff its parent slot
\* refers to P.
C13_SingleLinkage ==
  LET occ == [P \in Live |-> [X \in Live |-> Occurrences(children(nodes, P), X)]]
  IN \A X \in Live :
       /\ \A P \in Live :
            /\ occ[P][X] <= 1
            /\ (occ[P][X] = 1) <=> (parent(nodes, X) = P)
       /\ Cardinality({P \in Live : occ[P][X] >= 1}) <= 1

\* a node that was detached from one parent is attached under another: it
\* occurs in the new parent's children only
C13_Witness ==
  \E N \in Nodes, P \in Nodes, Q \in Nodes :
    /\ P # Q /\ N # P /\ N # Q
    /\ Held(N) /\ Held(Q) /\ Alive(P)
    /\ parent(nodes, N) = P
    /\ is_root(nodes, P) /\ is_root(nodes, Q)
    /\ LET h2 == attach(detach(nodes, N), Q, "LastChild", N).h
       IN /\ Occurrences(children(h2, Q), N) = 1
          /\ Occurrences(children(h2, P), N) = 0
          /\ parent(h2, N) = Q

InsertAt(seq, i, x) == SubSeq(seq, 1, i - 1) \o <<x>> \o SubSeq(seq, i, Len(seq))

\* C14: after every successful self.attach(target, node) the affected
\* parent's children sequence is its previous sequence with node inserted at
\* one position: the front for FirstChild and the end for LastChild (parent =
\* self), right before self for Before and right after self for After (parent
\* = self's parent); the other children keep their order.
C14_AttachInsertsAt ==
  \A self \in Nodes, node \in Nodes, t \in AttachTarget :
    (Held(self) /\ Held(node) /\ is_root(nodes, node)
       /\ attach(nodes, self, t, node).ok) =>
      LET h2 == attach(nodes, self, t, node).h
          p == IF t \in {"FirstChild", "LastChild"} THEN self
               ELSE upgrade(nodes, parent(nodes, self))
          c == children(nodes, p)
      IN CASE t = "FirstChild" -> children(h2, p) = InsertAt(c, 1, node)
           [] t = "LastChild" -> children(h2, p) = InsertAt(c, Len(c) + 1, node)
           [] t = "Before" ->
                \E i \in 1..Len(c) :
                  c[i] = self /\ children(h2, p) = InsertAt(c, i, node)
           [] t = "After" ->
                \E i \in 1..Len(c) :
                  c[i] = self /\ children(h2, p) = InsertAt(c, i + 1, node)

\* a root with two children: a held root can go in front, at the end, and
\* between the two by Before the second or After the first
C14_Witness ==
  \E P \in Nodes, A \in Nodes, N \in Nodes :
    /\ Held(P) /\ Held(A) /\ Held(N)
    /\ is_root(nodes, P) /\ is_root(nodes, N) /\ N # P
    /\ Len(children(nodes, P)) = 1 /\ children(nodes, P)[1] = A
    /\ children(attach(nodes, A, "Before", N).h, P) = <<N, A>>
    /\ children(attach(nodes, A, "After", N).h, P) = <<A, N>>
    /\ children(attach(nodes, P, "FirstChild", N).h, P) = <<N, A>>
    /\ children(attach(nodes, P, "LastChild", N).h, P) = <<A, N>>

ChildSet(h, n) == LET c == children(h, n) IN {c[i] : i \in 1..Len(c)}

RECURSIVE DoomedFrom(_, _)
\* the nodes that die with the nodes of S: their children no caller holds,
\* and so on downwards, k levels deep
DoomedFrom(S, k) ==
  LET T == S \cup {c \in Nodes : handles[c] = 0 /\
                                   \E d \in S : c \in ChildSet(nodes, d)}
  IN IF k = 0 \/ T = S THEN S ELSE DoomedFrom(T, k - 1)

\* C15: when the last handle to a root P with children is released, every
\* child of P (and of a node dying with it) that a caller holds survives as a
\* root with empty parent, prev_sibling and next_sibling slots, its own
\* children slots unchanged and its strong count one less; every child no
\* caller holds is deallocated in the same step, and so on recursively; no
\* other node changes.
C15_TeardownSurvivors ==
  \A P \in Nodes :
    (Held(P) /\ nodes[P].strong = 1 /\ nodes[P].first_child # Nil) =>
      LET h2 == drop_rc(nodes, P)
          D == DoomedFrom({P}, NumCells)
          S == {c \in Nodes : handles[c] > 0 /\ \E d \in D : c \in ChildSet(nodes, d)}
      IN /\ \A d \in D : h2[d].strong = 0 /\ h2[d].dropped = 1
         /\ \A c \in S :
              /\ h2[c] = [nodes[c] EXCEPT !.parent = Nil, !.prev_sibling = Nil,
                                          !.next_sibling = Nil, !.strong = @ - 1]
              /\ h2[c].strong > 0
              /\ children(h2, c) = children(nodes, c)
         /\ \A m \in Nodes \ (D \cup S) : h2[m] = nodes[m]

\* a root held by its last handle, with one child the caller holds and one
\* child alive through the tree alone: the release frees the root and the
\* second child and leaves the first a root
C15_Witness ==
  \E P \in Nodes, A \in Nodes, B \in Nodes :
    /\ Held(P) /\ nodes[P].strong = 1
    /\ A # B /\ Held(A) /\ ~Held(B)
    /\ A \in ChildSet(nodes, P) /\ B \in ChildSet(nodes, P)
    /\ LET h2 == drop_rc(nodes, P)
       IN /\ h2[P].dropped = 1 /\ h2[B].dropped = 1
          /\ h2[A].strong > 0 /\ is_root(h2, A)

\* C16: every non-empty link slot of a live node refers to a live node; the
\* node whose count detach decrements, and every node the teardown loop would
\* reconstitute a handle for, is alive and holds a unit beyond the caller's
\* handles.
C16_NoDanglingSlot ==
  /\ \A n \in Live :
       \A w \in {nodes[n].parent, nodes[n].first_child, nodes[n].last_child,
                 nodes[n].prev_sibling, nodes[n].next_sibling} :
         w # Nil => Alive(w)
  /\ \A N \in Nodes :
       (Held(N) /\ upgrade(nodes, parent(nodes, N)) # Nil) =>
         nodes[N].strong > handles[N]
  /\ \A P \in Live :
       \A c \in ChildSet(nodes, P) : nodes[c].strong > handles[c]

\* the last handle to a root goes while the caller holds its child, which has
\* a child of its own: afterwards the child is a live root whose slots, and
\* its own child's, refer to live nodes only
C16_Witness ==
  \E P \in Nodes, A \in Nodes, G \in Nodes :
    /\ Held(P) /\ nodes[P].strong = 1 /\ Held(A)
    /\ A \in ChildSet(nodes, P) /\ G \in ChildSet(nodes, A)
    /\ LET h2 == drop_rc(nodes, P)
       IN /\ h2[P].strong = 0
          /\ h2[A].strong > 0 /\ h2[A].parent = Nil /\ h2[A].first_child = G
          /\ h2[G].strong > 0 /\ h2[G].parent = A

\* C17: after every successful self.attach(target, node), node.detach() right
\* away restores every link slot and every strong count of every node.
C17_AttachDetachIdentity ==
  \A self \in Nodes, node \in Nodes :
    (Held(self) /\ Held(node) /\ is_root(nodes, node)) =>
      \A t \in AttachTarget :
        LET r == attach(nodes, self, t, node)
        IN r.ok => detach(r.h, node) = nodes

\* a root is put behind the child of another root and comes out again
C17_Witness ==
  \E A \in Nodes, N \in Nodes :
    /\ Held(A) /\ Held(N) /\ A # N
    /\ upgrade(nodes, parent(nodes, A)) \notin {Nil, A}
    /\ is_root(nodes, parent(nodes, A)) /\ is_root(nodes, N)
    /\ LET h2 == attach(nodes, A, "After", N).h
       IN /\ attach(nodes, A, "After", N).ok
          /\ h2 # nodes
          /\ prev_sibling(h2, N) = A
          /\ detach(h2, N) = nodes

\* C18: N.detach() on a held attached node N changes only N's parent,
\* prev_sibling and next_sibling slots, the facing sibling slot of N's former
\* neighbours, the former parent's first_child/last_child slot where N was an
\* end of the chain, and N's strong count (by -1); N's own first_child and
\* last_child slots and every other slot and count are unchanged, and N stays
\* alive.
C18_DetachFootprint ==
  \A N \in Nodes :
    (Held(N) /\ upgrade(nodes, parent(nodes, N)) # Nil) =>
      LET P == nodes[N].parent
          pv == nodes[N].prev_sibling
          nx == nodes[N].next_sibling
          h2 == detach(nodes, N)
      IN /\ h2[N] = [nodes[N] EXCEPT !.parent = Nil, !.prev_sibling = Nil,
                                     !.next_sibling = Nil, !.strong = @ - 1]
         /\ h2[N].strong > 0 /\ h2[N].dropped = 0
         /\ \A m \in Nodes \ {N} :
              /\ h2[m].strong = nodes[m].strong
              /\ h2[m].dropped = nodes[m].dropped
              /\ h2[m].allocated = nodes[m].allocated
              /\ h2[m].parent = nodes[m].parent
              /\ h2[m].next_sibling # nodes[m].next_sibling => m = pv
              /\ h2[m].prev_sibling # nodes[m].prev_sibling => m = nx
              /\ h2[m].first_child # nodes[m].first_child => (m = P /\ pv = Nil)
              /\ h2[m].last_child # nodes[m].last_child => (m = P /\ nx = Nil)
====
